---- MODULE Spec2Model ----
(***************************************************************************)
(* Order / Transaction / OrderBook / OrderQueue of backtest/Order.py as a  *)
(* state machine.  Python objects live in `heap` and are named by their    *)
(* index (a reference); the books map order ids to references, so that two *)
(* books may hold the same Order object.  Every action is one call of a    *)
(* method; `last` records the call and how it ended (return value or the   *)
(* exception raised).  Prices and amounts are integers.                    *)
(*                                                                         *)
(* The indicators of algorithm/operators.py are modelled further down: one *)
(* indicator object (`indicator`, with the indicators it owns nested in    *)
(* it), the exchange it reads (`exchange`), the outcome of the last get()  *)
(* (`result`) and the closes it was shown, one per timestamp (`fed`).      *)
(***************************************************************************)
EXTENDS Integers, Sequences, FiniteSets, TLC

VARIABLES heap, books, arrival, last, exchange, indicator, result, fed

vars == <<heap, books, arrival, last, exchange, indicator, result, fed>>

\* the state of the orders and books, and that of the indicators
ovars == <<heap, books, arrival, last>>

ivars == <<exchange, indicator, result, fed>>

\* no exchange and no indicator: the state of the order specifications
NoIndicator ==
    /\ exchange = [time |-> 0, close |-> 0, quotes |-> ""]
    /\ indicator = [cls |-> "None"]
    /\ result = [calls |-> 0, exc |-> "", ret |-> <<>>]
    /\ fed = <<>>

(***************************************************************************)
(* Bounds of the model.                                                    *)
(***************************************************************************)
\* largest requested amount of an order, and largest transaction amount
MaxAmount == 2
\* transactions executed on one order (failed executions included)
MaxTx == 3
\* pay_fee calls on one order
MaxFee == 2
\* Order objects constructed in the book specification
MaxOrders == 3
\* Order objects constructed in the history specification
MaxShared == 2
\* transactions executed in the history specification, all orders together
MaxSharedTx == 1
\* Order objects constructed in the construction specification
MaxCreated == 2
\* total of the fees one order pays in the fee specification
MaxFeeCalls == 3
\* largest close of the freely chosen closes
MaxPrice == 2
\* largest window size of an indicator
MaxWindow == 3
\* timestamps of an exchange with freely chosen closes
MaxTicks == 5
\* timestamps of an exchange replaying a fixed series
MaxSeriesTicks == 28
\* get() calls on the indicator at one timestamp
MaxCalls == 2

(***************************************************************************)
(* Enumerations (Order.py 89-103) and the inputs the calls are drawn from. *)
(***************************************************************************)
OrderSide == {"buy", "sell"}

OrderType == {"limit", "market"}

OrderStatus == {"submitted", "open", "filled", "cancelled"}

Timestamps == {0, 1, 2}

Quotes == {"ETH"}

Bases == {"BTC"}

Assets == {"BTC"}

Amounts == 0..MaxAmount

\* Transaction.__init__ validates nothing: a negative amount is accepted
TxAmounts == -1..MaxAmount

Prices == {-1, 1}

FeeAmounts == {1}

Refs == 1..Len(heap)

(***************************************************************************)
(* datetime.fromtimestamp(timestamp / 1000.0).isoformat(): seconds and     *)
(* microseconds of the millisecond timestamp (the zone offset is fixed).   *)
(***************************************************************************)
isoformat(timestamp) ==
    ToString(timestamp \div 1000) \o "." \o ToString((timestamp % 1000) * 1000)

Transaction_get_unique_id(datetime, symbol) == datetime \o ":" \o symbol

Transaction_init(quote_name, base_name, price, amount, side, timestamp) ==
    [timestamp  |-> timestamp,
     datetime   |-> isoformat(timestamp),
     side       |-> side,
     quote_name |-> quote_name,
     base_name  |-> base_name,
     symbol     |-> quote_name \o "/" \o base_name,
     amount     |-> amount,
     price      |-> price,
     id         |-> Transaction_get_unique_id(isoformat(timestamp),
                                              quote_name \o "/" \o base_name)]

\* faulty variant: the assertion amount >= 0 is missing
Order_valid_any_amount(price, amount, order_type, side) ==
    /\ order_type \in OrderType
    /\ side \in OrderSide
    /\ (order_type = "limit" => price >= 0)

\* the assertions of Order.__init__ on values (the isinstance checks on
\* str/int hold of every input drawn here)
Order_valid(price, amount, order_type, side) ==
    /\ order_type \in OrderType
    /\ side \in OrderSide
    /\ amount >= 0
    /\ (order_type = "limit" => price >= 0)

Order_get_unique_id(datetime, symbol) == datetime \o ":" \o symbol

Order_init(quote_name, base_name, price, amount, order_type, side, timestamp) ==
    [timestamp    |-> timestamp,
     datetime     |-> isoformat(timestamp),
     status       |-> "submitted",
     type         |-> order_type,
     side         |-> side,
     quote_name   |-> quote_name,
     base_name    |-> base_name,
     symbol       |-> quote_name \o "/" \o base_name,
     amount       |-> amount,
     price        |-> price,
     filled       |-> 0,
     transactions |-> <<>>,
     fee          |-> <<>>,
     id           |-> Order_get_unique_id(isoformat(timestamp),
                                          quote_name \o "/" \o base_name)]

(***************************************************************************)
(* Order methods: each gives the object after the call (self) and how the  *)
(* call ended: exc is "" when it returned, ret is the value returned.      *)
(***************************************************************************)
\* faulty variant: a fee replaces what was paid in the asset before
pay_fee_overwrites(self, asset, amount) ==
    [self |-> [self EXCEPT !.fee = [a \in DOMAIN self.fee \cup {asset} |->
                                       IF a = asset THEN amount ELSE self.fee[a]]],
     exc |-> "", ret |-> "None"]

\* faulty variant: cancelling also forgets what had been filled
cancel_clears_filled(self) ==
    [self |-> [self EXCEPT !.status = "cancelled", !.filled = 0], exc |-> "",
     ret |-> "None"]

cancel(self) ==
    [self |-> [self EXCEPT !.status = "cancelled"], exc |-> "", ret |-> "None"]

\* faulty variant: the assertion on the order type is missing
open_unchecked(self) ==
    [self |-> [self EXCEPT !.status = "open"], exc |-> "", ret |-> "None"]

open(self) ==
    IF self.type = "market"
    THEN [self |-> self, exc |-> "AssertionError", ret |-> "None"]
    ELSE [self |-> [self EXCEPT !.status = "open"], exc |-> "", ret |-> "None"]

generate_transaction(self, amount, price, timestamp) ==
    Transaction_init(self.quote_name, self.base_name, price, amount, self.side,
                     timestamp)

\* faulty variant: the status becomes Filled on every execution that passes the
\* assertion, complete or not
execute_transaction_always_filled(self, transaction) ==
    LET upd == [self EXCEPT !.filled = @ + transaction.amount,
                            !.transactions = Append(@, transaction)]
    IN  IF ~(upd.amount - upd.filled >= 0)
        THEN [self |-> upd, exc |-> "AssertionError", ret |-> "None"]
        ELSE [self |-> [upd EXCEPT !.status = "filled"], exc |-> "",
              ret |-> IF upd.amount - upd.filled = 0 THEN "True" ELSE "False"]

\* faulty variant: the assertion amount - filled >= 0 is missing
execute_transaction_unchecked(self, transaction) ==
    LET upd == [self EXCEPT !.filled = @ + transaction.amount,
                            !.transactions = Append(@, transaction)]
    IN  IF upd.amount - upd.filled = 0
        THEN [self |-> [upd EXCEPT !.status = "filled"], exc |-> "",
              ret |-> "True"]
        ELSE [self |-> upd, exc |-> "", ret |-> "False"]

\* faulty variant: a transaction that fails the assertion is not recorded
execute_transaction_drops_rejected(self, transaction) ==
    LET upd == [self EXCEPT !.filled = @ + transaction.amount,
                            !.transactions = Append(@, transaction)]
    IN  IF ~(upd.amount - upd.filled >= 0)
        THEN [self |-> [upd EXCEPT !.transactions = self.transactions],
              exc |-> "AssertionError", ret |-> "None"]
        ELSE IF upd.amount - upd.filled = 0
             THEN [self |-> [upd EXCEPT !.status = "filled"], exc |-> "",
                   ret |-> "True"]
             ELSE [self |-> upd, exc |-> "", ret |-> "False"]

\* both branches on transaction.side do the same; the assertion comes after
\* filled and transactions have been updated
execute_transaction(self, transaction) ==
    LET upd == IF transaction.side = "buy"
               THEN [self EXCEPT !.filled = @ + transaction.amount,
                                 !.transactions = Append(@, transaction)]
               ELSE [self EXCEPT !.filled = @ + transaction.amount,
                                 !.transactions = Append(@, transaction)]
    IN  IF ~(upd.amount - upd.filled >= 0)
        THEN [self |-> upd, exc |-> "AssertionError", ret |-> "None"]
        ELSE IF upd.amount - upd.filled = 0
             THEN [self |-> [upd EXCEPT !.status = "filled"], exc |-> "",
                   ret |-> "True"]
             ELSE [self |-> upd, exc |-> "", ret |-> "False"]

pay_fee(self, asset, amount) ==
    LET fee == IF asset \notin DOMAIN self.fee
               THEN [a \in DOMAIN self.fee \cup {asset} |->
                        IF a = asset THEN amount ELSE self.fee[a]]
               ELSE [self.fee EXCEPT ![asset] = @ + amount]
    IN  [self |-> [self EXCEPT !.fee = fee], exc |-> "", ret |-> "None"]

(***************************************************************************)
(* The record of the last call.                                            *)
(***************************************************************************)
\* op: the method; book: the book it was called on ("" for an Order method);
\* target: the Order it was called on or with (0: none); args: its other
\* arguments; exc: the exception raised ("": it returned); ret: the value
\* returned; out: the Order returned (0: none)
Call(op, book, target, args, exc, ret, out) ==
    [op |-> op, book |-> book, target |-> target, args |-> args, exc |-> exc,
     ret |-> ret, out |-> out]

NoCall == Call("", "", 0, <<>>, "", "None", 0)

(***************************************************************************)
(* Calls of the Order methods on the object r.                             *)
(***************************************************************************)
Cancel(r) ==
    LET res == cancel(heap[r])
    IN  /\ heap' = [heap EXCEPT ![r] = res.self]
        /\ last' = Call("cancel", "", r, <<>>, res.exc, res.ret, 0)
        /\ UNCHANGED <<books, arrival, ivars>>

Open(r) ==
    LET res == open(heap[r])
    IN  /\ heap' = [heap EXCEPT ![r] = res.self]
        /\ last' = Call("open", "", r, <<>>, res.exc, res.ret, 0)
        /\ UNCHANGED <<books, arrival, ivars>>

ExecuteTransaction(r, amount, price, timestamp) ==
    LET tx  == generate_transaction(heap[r], amount, price, timestamp)
        res == execute_transaction(heap[r], tx)
    IN  /\ heap' = [heap EXCEPT ![r] = res.self]
        /\ last' = Call("execute_transaction", "", r, <<amount, price, timestamp>>,
                        res.exc, res.ret, 0)
        /\ UNCHANGED <<books, arrival, ivars>>

PayFee(r, asset, amount) ==
    LET res == pay_fee(heap[r], asset, amount)
    IN  /\ heap' = [heap EXCEPT ![r] = res.self]
        /\ last' = Call("pay_fee", "", r, <<asset, amount>>, res.exc, res.ret, 0)
        /\ UNCHANGED <<books, arrival, ivars>>

RECURSIVE SumAmounts(_)
SumAmounts(txs) ==
    IF txs = <<>> THEN 0 ELSE txs[1].amount + SumAmounts(Tail(txs))

FeeCalls(o) ==
    LET RECURSIVE S(_)
        S(D) == IF D = {} THEN 0
                ELSE LET a == CHOOSE x \in D : TRUE IN o.fee[a] + S(D \ {a})
    IN  S(DOMAIN o.fee)

(***************************************************************************)
(* Spec: the life of one Order.  Init is the state after a successful      *)
(* construction; then open, cancel, execute_transaction and pay_fee are    *)
(* called in any order.                                                    *)
(***************************************************************************)
Init ==
    /\ \E quote_name \in Quotes, base_name \in Bases, price \in Prices,
          amount \in Amounts, order_type \in OrderType, side \in OrderSide,
          timestamp \in {0} :
          /\ Order_valid(price, amount, order_type, side)
          /\ heap = <<Order_init(quote_name, base_name, price, amount,
                                 order_type, side, timestamp)>>
    /\ books = [live |-> <<>>, history |-> <<>>]
    /\ arrival = <<>>
    /\ last = NoCall
    /\ NoIndicator

Next ==
    \/ \E r \in Refs : Open(r)
    \/ \E r \in Refs : Cancel(r)
    \/ \E r \in Refs, amount \in TxAmounts :
          /\ Len(heap[r].transactions) < MaxTx
          /\ ExecuteTransaction(r, amount, 1, 1)
    \/ \E r \in Refs, asset \in Assets, amount \in FeeAmounts :
          /\ FeeCalls(heap[r]) < MaxFee
          /\ PayFee(r, asset, amount)

Spec == Init /\ [][Next]_vars

(***************************************************************************)
(* dict / OrderedDict: a sequence of entries in insertion order.  Setting  *)
(* a key that is present replaces its value in place; a new key goes to    *)
(* the end.                                                                *)
(***************************************************************************)
dict_contains(d, key) == \E i \in 1..Len(d) : d[i].key = key

dict_index(d, key) == CHOOSE i \in 1..Len(d) : d[i].key = key

dict_getitem(d, key) == d[dict_index(d, key)].value

dict_setitem(d, key, value) ==
    IF dict_contains(d, key)
    THEN [d EXCEPT ![dict_index(d, key)].value = value]
    ELSE Append(d, [key |-> key, value |-> value])

dict_delitem(d, key) ==
    LET i == dict_index(d, key)
    IN  SubSeq(d, 1, i - 1) \o SubSeq(d, i + 1, Len(d))

dict_values(d) == {d[i].value : i \in 1..Len(d)}

get_id(order) == heap[order].id

(***************************************************************************)
(* OrderBook / OrderQueue methods on the dict `book`: the dict after the   *)
(* call, the exception raised ("": none) and the Order returned (0: none). *)
(***************************************************************************)
\* faulty variant: an id that is already in the book keeps its first order
insert_order_keep_first(book, order) ==
    IF dict_contains(book, get_id(order))
    THEN [book |-> book, exc |-> "", out |-> 0]
    ELSE [book |-> Append(book, [key |-> get_id(order), value |-> order]),
          exc |-> "", out |-> 0]

insert_order(book, order) ==
    [book |-> dict_setitem(book, get_id(order), order), exc |-> "", out |-> 0]

\* faulty variant: an absent order is ignored instead of raising OrderNotFound
remove_order_silent(book, order) ==
    IF dict_contains(book, get_id(order))
    THEN [book |-> dict_delitem(book, get_id(order)), exc |-> "", out |-> 0]
    ELSE [book |-> book, exc |-> "", out |-> 0]

remove_order(book, order) ==
    IF dict_contains(book, get_id(order))
    THEN [book |-> dict_delitem(book, get_id(order)), exc |-> "", out |-> 0]
    ELSE [book |-> book, exc |-> "OrderNotFound", out |-> 0]

get_order(book, order_id) ==
    IF dict_contains(book, order_id)
    THEN [book |-> book, exc |-> "", out |-> dict_getitem(book, order_id)]
    ELSE [book |-> book, exc |-> "OrderNotFound", out |-> 0]

is_empty(book) == Len(book) = 0

get_all_order_id(book) == {book[i].key : i \in 1..Len(book)}

\* OrderedDict.popitem(last=False): KeyError on an empty dict
pop_order(book) ==
    IF Len(book) = 0
    THEN [book |-> book, exc |-> "KeyError", out |-> 0]
    ELSE [book |-> Tail(book), exc |-> "", out |-> Head(book).value]

(***************************************************************************)
(* arrival: the Orders the queue "live" holds, in the order of the         *)
(* insertions that put them there (an Order inserted again while held      *)
(* keeps its place; an Order replaced under its id is gone).  It is what a *)
(* first-in first-out queue would hold; no method reads it.                *)
(***************************************************************************)
Arrived(b, book, order) ==
    IF b # "live" THEN arrival
    ELSE LET kept == SelectSeq(arrival, LAMBDA x : x \in dict_values(book))
         IN  IF order \in dict_values(book)
                  /\ \A i \in 1..Len(kept) : kept[i] # order
             THEN Append(kept, order)
             ELSE kept

(***************************************************************************)
(* Calls of the book methods on the book named b.                          *)
(***************************************************************************)
AddNewOrder(b, quote_name, base_name, price, amount, order_type, side, timestamp) ==
    IF ~Order_valid(price, amount, order_type, side)
    THEN /\ last' = Call("add_new_order", b, 0, <<>>, "AssertionError", "None", 0)
         /\ UNCHANGED <<heap, books, arrival, ivars>>
    ELSE LET new_order == Order_init(quote_name, base_name, price, amount,
                                     order_type, side, timestamp)
             ref == Len(heap) + 1
             book == dict_setitem(books[b], new_order.id, ref)
         IN  /\ heap' = Append(heap, new_order)
             /\ books' = [books EXCEPT ![b] = book]
             /\ arrival' = Arrived(b, book, ref)
             /\ last' = Call("add_new_order", b, 0, <<>>, "", new_order.id, 0)
             /\ UNCHANGED ivars

\* Order(...) constructed by the caller, not yet in any book
NewOrder(quote_name, base_name, price, amount, order_type, side, timestamp) ==
    IF ~Order_valid(price, amount, order_type, side)
    THEN /\ last' = Call("Order", "", 0, <<>>, "AssertionError", "None", 0)
         /\ UNCHANGED <<heap, books, arrival, ivars>>
    ELSE /\ heap' = Append(heap, Order_init(quote_name, base_name, price, amount,
                                            order_type, side, timestamp))
         /\ last' = Call("Order", "", 0, <<>>, "", "None", Len(heap) + 1)
         /\ UNCHANGED <<books, arrival, ivars>>

InsertOrder(b, r) ==
    LET res == insert_order(books[b], r)
    IN  /\ books' = [books EXCEPT ![b] = res.book]
        /\ arrival' = Arrived(b, res.book, r)
        /\ last' = Call("insert_order", b, r, <<>>, res.exc, "None", res.out)
        /\ UNCHANGED <<heap, ivars>>

\* faulty variant: removing an order takes it out of every book
RemoveOrder_everywhere(b, r) ==
    LET res == remove_order(books[b], r)
    IN  /\ books' = [x \in DOMAIN books |->
                        IF x = b THEN res.book
                        ELSE IF dict_contains(books[x], get_id(r))
                             THEN dict_delitem(books[x], get_id(r))
                             ELSE books[x]]
        /\ arrival' = Arrived(b, res.book, 0)
        /\ last' = Call("remove_order", b, r, <<>>, res.exc, "None", res.out)
        /\ UNCHANGED <<heap, ivars>>

RemoveOrder(b, r) ==
    LET res == remove_order(books[b], r)
    IN  /\ books' = [books EXCEPT ![b] = res.book]
        /\ arrival' = Arrived(b, res.book, 0)
        /\ last' = Call("remove_order", b, r, <<>>, res.exc, "None", res.out)
        /\ UNCHANGED <<heap, ivars>>

GetOrder(b, order_id) ==
    LET res == get_order(books[b], order_id)
    IN  /\ books' = [books EXCEPT ![b] = res.book]
        /\ arrival' = Arrived(b, res.book, 0)
        /\ last' = Call("get_order", b, 0, <<order_id>>, res.exc, "None", res.out)
        /\ UNCHANGED <<heap, ivars>>

PopOrder(b) ==
    LET res == pop_order(books[b])
    IN  /\ books' = [books EXCEPT ![b] = res.book]
        /\ arrival' = Arrived(b, res.book, 0)
        /\ last' = Call("pop_order", b, 0, <<>>, res.exc, "None", res.out)
        /\ UNCHANGED <<heap, ivars>>

OrderIds(timestamps) ==
    {Order_get_unique_id(isoformat(t), q \o "/" \o b) :
        t \in timestamps, q \in Quotes, b \in Bases}

(***************************************************************************)
(* SpecBook: one OrderQueue ("live") and the Orders made for it.  Orders   *)
(* are constructed by add_new_order (with valid and invalid parameters)    *)
(* and inserted, removed, looked up and popped in any order.               *)
(***************************************************************************)
InitBook ==
    /\ heap = <<>>
    /\ books = [live |-> <<>>, history |-> <<>>]
    /\ arrival = <<>>
    /\ last = NoCall
    /\ NoIndicator

NextBook ==
    \/ \E quote_name \in Quotes, base_name \in Bases, amount \in {-1, 1},
          order_type \in OrderType \cup {"stop"}, timestamp \in Timestamps :
          /\ Len(heap) < MaxOrders
          /\ AddNewOrder("live", quote_name, base_name, 1, amount, order_type,
                         "buy", timestamp)
    \/ \E r \in Refs : InsertOrder("live", r)
    \/ \E r \in Refs : RemoveOrder("live", r)
    \/ \E order_id \in OrderIds(Timestamps) : GetOrder("live", order_id)
    \/ PopOrder("live")

SpecBook == InitBook /\ [][NextBook]_vars

(***************************************************************************)
(* SpecQueue: one OrderQueue driven by insert_order, remove_order and      *)
(* pop_order alone, on Orders the caller constructs.                       *)
(***************************************************************************)
NextQueue ==
    \/ \E order_type \in OrderType, timestamp \in Timestamps :
          /\ Len(heap) < MaxOrders
          /\ NewOrder("ETH", "BTC", 1, 1, order_type, "buy", timestamp)
    \/ \E r \in Refs : InsertOrder("live", r)
    \/ \E r \in Refs : RemoveOrder("live", r)
    \/ PopOrder("live")

SpecQueue == InitBook /\ [][NextQueue]_vars

(***************************************************************************)
(* SpecHistory: the exchange's two stores (Order.py 61-63): every new      *)
(* Order is put in the queue "live" and its reference in the book          *)
(* "history"; orders leave the queue by remove_order and pop_order, are    *)
(* executed and cancelled, and are read back through history.              *)
(***************************************************************************)
TotalTx ==
    LET RECURSIVE T(_)
        T(n) == IF n = 0 THEN 0 ELSE Len(heap[n].transactions) + T(n - 1)
    IN  T(Len(heap))

NextHistory ==
    \/ \E timestamp \in {0, 1} :
          /\ Len(heap) < MaxShared
          /\ AddNewOrder("live", "ETH", "BTC", 1, 1, "limit", "buy", timestamp)
    \/ \E r \in Refs : InsertOrder("history", r)
    \/ \E r \in Refs : RemoveOrder("live", r)
    \/ PopOrder("live")
    \/ \E order_id \in OrderIds({0, 1}) : GetOrder("history", order_id)
    \/ \E r \in Refs : Cancel(r)
    \/ \E r \in Refs, amount \in {1} :
          /\ TotalTx < MaxSharedTx
          /\ ExecuteTransaction(r, amount, 1, 1)

SpecHistory == InitBook /\ [][NextHistory]_vars

(***************************************************************************)
(* SpecCreate: Orders constructed directly and through add_new_order, with *)
(* well-formed and malformed parameters.                                   *)
(***************************************************************************)
CreateTypes == OrderType \cup {"stop"}

CreateSides == {"buy", "hold"}

CreateAmounts == {-1, 1}

CreateTimestamps == {0, 1}

NextCreate ==
    \/ \E price \in Prices, amount \in CreateAmounts, order_type \in CreateTypes,
          side \in CreateSides, timestamp \in CreateTimestamps :
          /\ Len(heap) < MaxCreated
          /\ NewOrder("ETH", "BTC", price, amount, order_type, side, timestamp)
    \/ \E price \in Prices, amount \in CreateAmounts, order_type \in CreateTypes,
          side \in CreateSides, timestamp \in CreateTimestamps :
          /\ Len(heap) < MaxCreated
          /\ AddNewOrder("live", "ETH", "BTC", price, amount, order_type, side,
                         timestamp)

SpecCreate == InitBook /\ [][NextCreate]_vars

(***************************************************************************)
(* SpecFee: one Limit order of amount 2 that is opened, executed,          *)
(* cancelled and charged fees in two assets, in any order.                 *)
(***************************************************************************)
FeeAssets == {"BTC", "ETH"}

FeePaid == {1, 2}

InitFee ==
    /\ heap = <<Order_init("ETH", "BTC", 1, 2, "limit", "buy", 0)>>
    /\ books = [live |-> <<>>, history |-> <<>>]
    /\ arrival = <<>>
    /\ last = NoCall
    /\ NoIndicator

NextFee ==
    \/ \E r \in Refs : Open(r)
    \/ \E r \in Refs : Cancel(r)
    \/ \E r \in Refs :
          /\ Len(heap[r].transactions) < 2
          /\ ExecuteTransaction(r, 1, 1, 1)
    \/ \E r \in Refs, asset \in FeeAssets, amount \in FeePaid :
          /\ FeeCalls(heap[r]) < MaxFeeCalls
          /\ PayFee(r, asset, amount)

SpecFee == InitFee /\ [][NextFee]_vars

(***************************************************************************)
(* Numbers of the indicators.  A price or an indicator value is either     *)
(* None or an exact fraction n/d in lowest terms with d > 0 (the program   *)
(* computes in floating point; the model keeps the exact value).           *)
(***************************************************************************)
None == [some |-> FALSE, n |-> 0, d |-> 1]

RECURSIVE Gcd(_, _)
Gcd(a, b) == IF b = 0 THEN a ELSE Gcd(b, a % b)

Abs(i) == IF i < 0 THEN -i ELSE i

Frac(n, d) ==
    LET sn == IF d < 0 THEN -n ELSE n
        sd == Abs(d)
        g  == Gcd(Abs(sn), sd)
    IN  [some |-> TRUE, n |-> sn \div g, d |-> sd \div g]

Num(i) == Frac(i, 1)

RAdd(a, b) == Frac(a.n * b.d + b.n * a.d, a.d * b.d)

RSub(a, b) == Frac(a.n * b.d - b.n * a.d, a.d * b.d)

RMul(a, b) == Frac(a.n * b.n, a.d * b.d)

\* a / b for b # 0
RDiv(a, b) == Frac(a.n * b.d, a.d * b.n)

RLess(a, b) == a.n * b.d < b.n * a.d

RMax(a, b) == IF RLess(a, b) THEN b ELSE a

RMin(a, b) == IF RLess(b, a) THEN b ELSE a

math_fabs(a) == Frac(Abs(a.n), a.d)

\* round(a, 2): the nearest multiple of 1/100, a tie to the even one
round2(a) ==
    LET n == a.n * 100
        q == n \div a.d
        r == n - q * a.d
        up == \/ 2 * r > a.d
              \/ 2 * r = a.d /\ q % 2 = 1
    IN  Frac(IF up THEN q + 1 ELSE q, 100)

\* math.sqrt: [exc, val]; a negative argument raises ValueError.  The
\* radicands a state of the model can produce are zero, negative or
\* squares of fractions.
math_sqrt(a) ==
    IF a.n < 0 THEN [exc |-> "ValueError", val |-> None]
    ELSE LET rn == CHOOSE k \in 0..a.n : k * k = a.n
             rd == CHOOSE k \in 1..a.d : k * k = a.d
         IN  [exc |-> "", val |-> Frac(rn, rd)]

\* sum, min and max of a sequence, halving it
RECURSIVE sum(_)
sum(q) ==
    IF q = <<>> THEN Num(0)
    ELSE IF Len(q) = 1 THEN q[1]
    ELSE RAdd(sum(SubSeq(q, 1, Len(q) \div 2)),
              sum(SubSeq(q, Len(q) \div 2 + 1, Len(q))))

RECURSIVE min(_)
min(q) ==
    IF Len(q) = 1 THEN q[1]
    ELSE RMin(min(SubSeq(q, 1, Len(q) \div 2)),
              min(SubSeq(q, Len(q) \div 2 + 1, Len(q))))

RECURSIVE max(_)
max(q) ==
    IF Len(q) = 1 THEN q[1]
    ELSE RMax(max(SubSeq(q, 1, Len(q) \div 2)),
              max(SubSeq(q, Len(q) \div 2 + 1, Len(q))))

\* collections.deque(maxlen): append drops the leftmost element of a full
\* deque
deque_append(q, maxlen, x) ==
    IF Len(q) = maxlen THEN Append(Tail(q), x) ELSE Append(q, x)

\* what a method call leaves: the object, the exception raised ("" when it
\* returned) and the values returned (a tuple)
Ret(self, ret) == [self |-> self, exc |-> "", ret |-> ret]

Raise(self, exc) == [self |-> self, exc |-> exc, ret |-> <<>>]

(***************************************************************************)
(* The exchange an indicator reads: the current timestamp and the ticker   *)
(* of the one symbol.  A ticker is given by its close; the high lies one   *)
(* above it and the low one below (not below zero).                        *)
(***************************************************************************)
fetch_ticker(ex) ==
    [close |-> Num(ex.close),
     high  |-> Num(ex.close + 1),
     low   |-> Num(IF ex.close > 0 THEN ex.close - 1 ELSE 0)]

(***************************************************************************)
(* The primitive indicators.  An indicator object is a record of its       *)
(* fields; last_timestamp is 0 after construction (OperatorsBase).  The    *)
(* field read from the ticker is Close.  Window sizes are at least 1.      *)
(***************************************************************************)
EMA_init(window_size) ==
    [cls |-> "EMA", last_timestamp |-> 0, window_size |-> window_size,
     price_queue |-> <<>>, ema |-> None,
     multiplier |-> Frac(2, 1 + window_size)]

\* faulty variant: the textbook recurrence ema += (value - ema) * multiplier
EMA_get_feed_textbook(self, time, value) ==
    IF self.last_timestamp = time THEN Ret(self, <<self.ema>>)
    ELSE LET q == deque_append(self.price_queue, self.window_size + 1, value)
         IN  IF Len(q) < self.window_size
             THEN Ret([self EXCEPT !.price_queue = q], <<self.ema>>)
             ELSE LET ema == IF Len(q) = self.window_size
                             THEN RDiv(sum(q), Num(self.window_size))
                             ELSE RAdd(self.ema,
                                       RMul(RSub(value, self.ema), self.multiplier))
                      rest == IF Len(q) = self.window_size THEN q ELSE Tail(q)
                  IN  Ret([self EXCEPT !.price_queue = rest, !.ema = ema,
                                       !.last_timestamp = time], <<ema>>)

EMA_get_feed(self, time, value) ==
    IF self.last_timestamp = time THEN Ret(self, <<self.ema>>)
    ELSE LET q == deque_append(self.price_queue, self.window_size + 1, value)
         IN  IF Len(q) < self.window_size
             THEN Ret([self EXCEPT !.price_queue = q], <<self.ema>>)
             ELSE LET ema == IF Len(q) = self.window_size
                             THEN RDiv(sum(q), Num(self.window_size))
                             ELSE RAdd(self.ema,
                                       RMul(RSub(value, Head(q)), self.multiplier))
                      rest == IF Len(q) = self.window_size THEN q ELSE Tail(q)
                  IN  Ret([self EXCEPT !.price_queue = rest, !.ema = ema,
                                       !.last_timestamp = time], <<ema>>)

EMA_get(self, ex) == EMA_get_feed(self, ex.time, fetch_ticker(ex).close)

SMA_init(window_size) ==
    [cls |-> "SMA", last_timestamp |-> 0, window_size |-> window_size,
     price_queue |-> <<>>, sma |-> None]

\* faulty variant: the value leaving the window is not subtracted
SMA_get_feed_no_eviction(self, time, value) ==
    IF self.last_timestamp = time THEN Ret(self, <<self.sma>>)
    ELSE LET q == deque_append(self.price_queue, self.window_size + 1, value)
         IN  IF Len(q) < self.window_size
             THEN Ret([self EXCEPT !.price_queue = q], <<self.sma>>)
             ELSE LET sma == IF Len(q) = self.window_size
                             THEN RDiv(sum(q), Num(self.window_size))
                             ELSE RAdd(self.sma,
                                       RDiv(value, Num(self.window_size)))
                      rest == IF Len(q) = self.window_size THEN q ELSE Tail(q)
                  IN  Ret([self EXCEPT !.price_queue = rest, !.sma = sma,
                                       !.last_timestamp = time], <<sma>>)

SMA_get_feed(self, time, value) ==
    IF self.last_timestamp = time THEN Ret(self, <<self.sma>>)
    ELSE LET q == deque_append(self.price_queue, self.window_size + 1, value)
         IN  IF Len(q) < self.window_size
             THEN Ret([self EXCEPT !.price_queue = q], <<self.sma>>)
             ELSE LET sma == IF Len(q) = self.window_size
                             THEN RDiv(sum(q), Num(self.window_size))
                             ELSE RAdd(self.sma,
                                       RDiv(RSub(value, Head(q)),
                                            Num(self.window_size)))
                      rest == IF Len(q) = self.window_size THEN q ELSE Tail(q)
                  IN  Ret([self EXCEPT !.price_queue = rest, !.sma = sma,
                                       !.last_timestamp = time], <<sma>>)

SMA_get(self, ex) == SMA_get_feed(self, ex.time, fetch_ticker(ex).close)

SMA_get_feed_extern(self, time, value) == SMA_get_feed(self, time, value)

SMMA_init(window_size) ==
    [cls |-> "SMMA", last_timestamp |-> 0, window_size |-> window_size,
     smma |-> None]

SMMA_get_feed(self, time, value) ==
    IF self.last_timestamp = time THEN Ret(self, <<self.smma>>)
    ELSE LET smma == IF ~self.smma.some THEN value
                     ELSE RDiv(RAdd(RMul(self.smma, Num(self.window_size - 1)),
                                    value),
                               Num(self.window_size))
         IN  Ret([self EXCEPT !.smma = smma, !.last_timestamp = time], <<smma>>)

SMMA_get(self, ex) == SMMA_get_feed(self, ex.time, fetch_ticker(ex).close)

SMMA_get_feed_extern(self, time, value) == SMMA_get_feed(self, time, value)

Sigma_init(window_size) ==
    [cls |-> "Sigma", last_timestamp |-> 0, window_size |-> window_size,
     price_queue |-> <<>>, price_queue_sq |-> <<>>, price_sum |-> None,
     price_sum_sq |-> None, sigma |-> None]

\* math.sqrt has returned or raised: the last statements of __get_feed
Sigma_assign(self, root) ==
    IF root.exc # "" THEN Raise(self, root.exc)
    ELSE Ret([self EXCEPT !.sigma = root.val], <<root.val>>)

\* self.sigma = math.sqrt((price_sum_sq - price_sum ** 2) / (window_size - 1))
Sigma_sqrt(self) ==
    IF self.window_size - 1 = 0 THEN Raise(self, "ZeroDivisionError")
    ELSE Sigma_assign(self,
             math_sqrt(RDiv(RSub(self.price_sum_sq,
                                 RMul(self.price_sum, self.price_sum)),
                            Num(self.window_size - 1))))

\* __get_feed once the value and its square are appended
Sigma_sums(self, value) ==
    IF \/ Len(self.price_queue) # Len(self.price_queue_sq)
       \/ Len(self.price_queue) < self.window_size
    THEN Ret(self, <<self.sigma>>)
    ELSE IF Len(self.price_queue) = self.window_size
    THEN Sigma_sqrt([self EXCEPT !.price_sum = sum(self.price_queue),
                                 !.price_sum_sq = sum(self.price_queue_sq)])
    ELSE Sigma_sqrt([self EXCEPT
             !.price_sum = RAdd(self.price_sum,
                                RSub(value, Head(self.price_queue))),
             !.price_sum_sq = RAdd(self.price_sum_sq,
                                   RSub(RMul(value, value),
                                        Head(self.price_queue_sq))),
             !.price_queue = Tail(self.price_queue),
             !.price_queue_sq = Tail(self.price_queue_sq)])

Sigma_get_feed(self, time, value) ==
    IF self.last_timestamp = time THEN Ret(self, <<self.sigma>>)
    ELSE Sigma_sums([self EXCEPT
             !.last_timestamp = time,
             !.price_queue = deque_append(self.price_queue,
                                          self.window_size + 1, value),
             !.price_queue_sq = deque_append(self.price_queue_sq,
                                             self.window_size + 1,
                                             RMul(value, value))],
                    value)

Sigma_get(self, ex) == Sigma_get_feed(self, ex.time, fetch_ticker(ex).close)

Sigma_get_feed_extern(self, time, value) == Sigma_get_feed(self, time, value)

ATR_init(window_size) ==
    [cls |-> "ATR", last_timestamp |-> 0, window_size |-> window_size,
     previous_close |-> None, tr_queue |-> <<>>, atr |-> None]

\* faulty variant: the plain average of the window is kept up afterwards too
ATR_get_feed_plain_average(self, time, value) ==
    IF self.last_timestamp = time THEN Ret(self, <<self.atr>>)
    ELSE LET w  == self.window_size
             q  == deque_append(self.tr_queue, w + 1, value)
             fed1 == [self EXCEPT !.last_timestamp = time, !.tr_queue = q]
         IN  IF Len(q) < w THEN Ret(fed1, <<self.atr>>)
             ELSE LET atr == IF Len(q) = w THEN RDiv(sum(q), Num(w))
                             ELSE RDiv(sum(Tail(q)), Num(w))
                  IN  Ret([fed1 EXCEPT !.atr = atr], <<atr>>)

ATR_get_feed(self, time, value) ==
    IF self.last_timestamp = time THEN Ret(self, <<self.atr>>)
    ELSE LET w  == self.window_size
             q  == deque_append(self.tr_queue, w + 1, value)
             fed1 == [self EXCEPT !.last_timestamp = time, !.tr_queue = q]
         IN  IF Len(q) < w THEN Ret(fed1, <<self.atr>>)
             ELSE LET atr == IF Len(q) = w THEN RDiv(sum(q), Num(w))
                             ELSE RDiv(RAdd(RMul(self.atr, Num(w - 1)), value),
                                       Num(w))
                  IN  Ret([fed1 EXCEPT !.atr = atr], <<atr>>)

true_range(ticker, previous_close) ==
    RMax(math_fabs(RSub(ticker.high, ticker.low)),
         RMax(math_fabs(RSub(ticker.high, previous_close)),
              math_fabs(RSub(previous_close, ticker.low))))

ATR_get(self, ex) ==
    LET ticker == fetch_ticker(ex)
    IN  IF ~self.previous_close.some
        THEN Ret([self EXCEPT !.previous_close = ticker.close], <<None>>)
        ELSE ATR_get_feed(self, ex.time, true_range(ticker, self.previous_close))

(***************************************************************************)
(* The composite indicators.  The indicators a composite owns are fields   *)
(* of its record.                                                          *)
(***************************************************************************)
MACD_init ==
    [cls |-> "MACD", last_timestamp |-> 0, ema_26 |-> EMA_init(26),
     ema_12 |-> EMA_init(12), macd |-> None]

\* get once both averages were read
MACD_subtract(self, time, ema_12, ema_26) ==
    IF ~ema_12.ret[1].some \/ ~ema_26.ret[1].some
    THEN Ret([self EXCEPT !.ema_12 = ema_12.self, !.ema_26 = ema_26.self,
                          !.macd = None, !.last_timestamp = time], <<None>>)
    ELSE Ret([self EXCEPT !.ema_12 = ema_12.self, !.ema_26 = ema_26.self,
                          !.macd = RSub(ema_12.ret[1], ema_26.ret[1]),
                          !.last_timestamp = time],
             <<RSub(ema_12.ret[1], ema_26.ret[1])>>)

MACD_get(self, ex) ==
    IF self.last_timestamp = ex.time THEN Ret(self, <<self.macd>>)
    ELSE MACD_subtract(self, ex.time, EMA_get(self.ema_12, ex),
                       EMA_get(self.ema_26, ex))

\* the attribute stochastic_oscillator exists only once it was assigned:
\* None stands for its absence
StochasticOscillator_init ==
    [cls |-> "StochasticOscillator", last_timestamp |-> 0, low_14 |-> None,
     high_14 |-> None, price_queue |-> <<>>, percent_k |-> None,
     past_oscillator |-> <<>>, percent_d |-> None,
     stochastic_oscillator |-> None]

\* the oscillator is computed: it joins past_oscillator, which gives %D
StochasticOscillator_smooth(self, time, so, past) ==
    Ret([self EXCEPT !.stochastic_oscillator = so,
                     !.past_oscillator = past,
                     !.percent_d = IF Len(past) = 3
                                   THEN round2(RDiv(sum(past), Num(3)))
                                   ELSE self.percent_d,
                     !.last_timestamp = time],
        <<self.percent_k,
          IF Len(past) = 3 THEN round2(RDiv(sum(past), Num(3)))
          ELSE self.percent_d>>)

\* the window is full: low_14 and high_14 are taken, then the value joins
StochasticOscillator_range(self, time, value, low_14, high_14) ==
    IF RSub(high_14, low_14).n = 0
    THEN Raise([self EXCEPT
                  !.low_14 = low_14, !.high_14 = high_14,
                  !.price_queue = deque_append(self.price_queue, 14, value)],
               "ZeroDivisionError")
    ELSE StochasticOscillator_smooth(
             [self EXCEPT
                !.low_14 = low_14, !.high_14 = high_14,
                !.price_queue = deque_append(self.price_queue, 14, value)],
             time,
             round2(RMul(RDiv(RSub(value, low_14), RSub(high_14, low_14)),
                         Num(100))),
             deque_append(self.past_oscillator, 3,
                          round2(RMul(RDiv(RSub(value, low_14),
                                           RSub(high_14, low_14)),
                                      Num(100)))))

StochasticOscillator_get_feed(self, time, value) ==
    IF self.last_timestamp = time
    THEN Ret(self, <<self.percent_k, self.percent_d>>)
    ELSE IF Len(self.price_queue) < 14
    THEN Ret([self EXCEPT !.price_queue = Append(self.price_queue, value),
                          !.last_timestamp = time],
             <<self.percent_k, self.percent_d>>)
    ELSE StochasticOscillator_range(self, time, value, min(self.price_queue),
                                    max(self.price_queue))

StochasticOscillator_get(self, ex) ==
    StochasticOscillator_get_feed(self, ex.time, fetch_ticker(ex).close)

RSI_init(window_size) ==
    [cls |-> "RSI", last_timestamp |-> 0, window_size |-> window_size,
     smma_up |-> SMMA_init(window_size), smma_down |-> SMMA_init(window_size),
     rsi |-> None, close_prev |-> None]

\* rsi = 100 - 100 / (1 + smma_u / smma_d)
RSI_index(self, smma_u, smma_d) ==
    IF smma_d.n = 0 THEN Raise(self, "ZeroDivisionError")
    ELSE IF RAdd(Num(1), RDiv(smma_u, smma_d)).n = 0
    THEN Raise(self, "ZeroDivisionError")
    ELSE Ret([self EXCEPT
                !.rsi = RSub(Num(100),
                             RDiv(Num(100), RAdd(Num(1), RDiv(smma_u, smma_d))))],
             <<RSub(Num(100),
                    RDiv(Num(100), RAdd(Num(1), RDiv(smma_u, smma_d))))>>)

\* __get_feed once both averages were fed
RSI_combine(self, smma_u, smma_d) ==
    IF ~smma_u.ret[1].some \/ ~smma_d.ret[1].some
    THEN Ret([self EXCEPT !.smma_up = smma_u.self, !.smma_down = smma_d.self],
             <<self.rsi>>)
    ELSE RSI_index([self EXCEPT !.smma_up = smma_u.self,
                                !.smma_down = smma_d.self],
                   smma_u.ret[1], smma_d.ret[1])

RSI_get_feed(self, time, value) ==
    IF self.last_timestamp = time THEN Ret(self, <<self.rsi>>)
    ELSE IF ~self.close_prev.some
    THEN Ret([self EXCEPT !.last_timestamp = time], <<self.rsi>>)
    ELSE RSI_combine(
             [self EXCEPT !.last_timestamp = time],
             SMMA_get_feed_extern(self.smma_up, time,
                                  RMax(Num(0), RSub(value, self.close_prev))),
             SMMA_get_feed_extern(self.smma_down, time,
                                  RMax(Num(0), RSub(self.close_prev, value))))

RSI_get(self, ex) == RSI_get_feed(self, ex.time, fetch_ticker(ex).close)

CCI_init(window_size) ==
    [cls |-> "CCI", last_timestamp |-> 0, window_size |-> window_size,
     sigma |-> Sigma_init(window_size), sma |-> SMA_init(window_size),
     cci |-> None]

\* __get_feed once the average and the deviation were fed
CCI_combine(self, value, sma, sigma) ==
    IF sigma.exc # ""
    THEN Raise([self EXCEPT !.sma = sma.self, !.sigma = sigma.self], sigma.exc)
    ELSE IF ~sma.ret[1].some \/ ~sigma.ret[1].some
    THEN Ret([self EXCEPT !.sma = sma.self, !.sigma = sigma.self], <<self.cci>>)
    ELSE IF sigma.ret[1].n = 0
    THEN Raise([self EXCEPT !.sma = sma.self, !.sigma = sigma.self],
               "ZeroDivisionError")
    ELSE Ret([self EXCEPT
                !.sma = sma.self, !.sigma = sigma.self,
                !.cci = RDiv(RSub(value, sma.ret[1]),
                             RMul(Frac(15, 1000), sigma.ret[1]))],
             <<RDiv(RSub(value, sma.ret[1]),
                    RMul(Frac(15, 1000), sigma.ret[1]))>>)

CCI_get_feed(self, time, value) ==
    IF self.last_timestamp = time THEN Ret(self, <<self.cci>>)
    ELSE CCI_combine([self EXCEPT !.last_timestamp = time], value,
                     SMA_get_feed_extern(self.sma, time, value),
                     Sigma_get_feed_extern(self.sigma, time, value))

CCI_get(self, ex) ==
    LET ticker == fetch_ticker(ex)
        typical_price == RDiv(RAdd(RAdd(ticker.close, ticker.high), ticker.low),
                              Num(3))
    IN  CCI_get_feed(self, ex.time, typical_price)

BollingerBands_init(window_size) ==
    [cls |-> "BollingerBands", last_timestamp |-> 0,
     window_size |-> window_size, sigma |-> Sigma_init(window_size),
     sma |-> SMA_init(window_size), upper_band |-> None, lower_band |-> None,
     middle_band |-> None]

\* the bands around the average sma, two deviations sigma wide
BollingerBands_bands(self, sma, sigma) ==
    Ret([self EXCEPT !.middle_band = sma,
                     !.upper_band = RAdd(sma, RMul(Num(2), sigma)),
                     !.lower_band = RSub(sma, RMul(Num(2), sigma))],
        <<sma, RAdd(sma, RMul(Num(2), sigma)), RSub(sma, RMul(Num(2), sigma))>>)

\* __get_feed once the average and the deviation were fed
BollingerBands_combine(self, sma, sigma) ==
    IF sigma.exc # ""
    THEN Raise([self EXCEPT !.sma = sma.self, !.sigma = sigma.self], sigma.exc)
    ELSE IF ~sma.ret[1].some \/ ~sigma.ret[1].some
    THEN Ret([self EXCEPT !.sma = sma.self, !.sigma = sigma.self],
             <<self.middle_band, self.upper_band, self.lower_band>>)
    ELSE BollingerBands_bands([self EXCEPT !.sma = sma.self,
                                           !.sigma = sigma.self],
                              sma.ret[1], sigma.ret[1])

BollingerBands_get_feed(self, time, value) ==
    IF self.last_timestamp = time
    THEN Ret(self, <<self.middle_band, self.upper_band, self.lower_band>>)
    ELSE BollingerBands_combine([self EXCEPT !.last_timestamp = time],
                                SMA_get_feed_extern(self.sma, time, value),
                                Sigma_get_feed_extern(self.sigma, time, value))

BollingerBands_get(self, ex) ==
    BollingerBands_get_feed(self, ex.time, fetch_ticker(ex).close)

(***************************************************************************)
(* One indicator and the exchange it reads.  The exchange replays a series *)
(* of closes: "any" lets every tick bring any close of 0..MaxPrice, the    *)
(* named series are fixed.  A strategy reads the indicator at every        *)
(* timestamp, once or more often, before the clock advances.               *)
(***************************************************************************)
Primitives == {"SMA", "EMA", "SMMA", "Sigma", "ATR"}

Composites == {"MACD", "RSI", "CCI", "BollingerBands", "StochasticOscillator"}

Series == {"dead", "flat", "up", "down", "zigzag", "step"}

Windows == 1..MaxWindow

construct(cls, window_size) ==
    CASE cls = "SMA" -> SMA_init(window_size)
      [] cls = "EMA" -> EMA_init(window_size)
      [] cls = "SMMA" -> SMMA_init(window_size)
      [] cls = "Sigma" -> Sigma_init(window_size)
      [] cls = "ATR" -> ATR_init(window_size)
      [] cls = "MACD" -> MACD_init
      [] cls = "RSI" -> RSI_init(window_size)
      [] cls = "CCI" -> CCI_init(window_size)
      [] cls = "BollingerBands" -> BollingerBands_init(window_size)
      [] cls = "StochasticOscillator" -> StochasticOscillator_init

get(self, ex) ==
    CASE self.cls = "SMA" -> SMA_get(self, ex)
      [] self.cls = "EMA" -> EMA_get(self, ex)
      [] self.cls = "SMMA" -> SMMA_get(self, ex)
      [] self.cls = "Sigma" -> Sigma_get(self, ex)
      [] self.cls = "ATR" -> ATR_get(self, ex)
      [] self.cls = "MACD" -> MACD_get(self, ex)
      [] self.cls = "RSI" -> RSI_get(self, ex)
      [] self.cls = "CCI" -> CCI_get(self, ex)
      [] self.cls = "BollingerBands" -> BollingerBands_get(self, ex)
      [] self.cls = "StochasticOscillator" -> StochasticOscillator_get(self, ex)

\* the closes the series of the exchange has at the timestamp time
Closes(quotes, time) ==
    CASE quotes = "any" -> 0..MaxPrice
      [] quotes = "dead" -> {0}
      [] quotes = "flat" -> {1}
      [] quotes = "up" -> {time}
      [] quotes = "down" -> {MaxSeriesTicks + 1 - time}
      [] quotes = "zigzag" -> {1 + (time % 2)}
      [] quotes = "step" -> {IF time <= 14 THEN 1 ELSE 2}

LastTick(quotes) == IF quotes = "any" THEN MaxTicks ELSE MaxSeriesTicks

NoResult == [calls |-> 0, exc |-> "", ret |-> <<>>]

NoOrders ==
    /\ heap = <<>>
    /\ books = [live |-> <<>>, history |-> <<>>]
    /\ arrival = <<>>
    /\ last = NoCall

\* get() has ended as r says
Returned(r) ==
    /\ indicator' = r.self
    /\ result' = [calls |-> result.calls + 1, exc |-> r.exc, ret |-> r.ret]

\* the strategy calls indicator.get(), for at most the limit-th time at
\* this timestamp
Get(limit) ==
    /\ result.calls < limit
    /\ Returned(get(indicator, exchange))
    /\ fed' = IF result.calls = 0 THEN Append(fed, exchange.close) ELSE fed
    /\ UNCHANGED <<exchange, ovars>>

\* the clock of the exchange advances to the next timestamp
Tick ==
    /\ result.calls > 0
    /\ exchange.time < LastTick(exchange.quotes)
    /\ \E close \in Closes(exchange.quotes, exchange.time + 1) :
          exchange' = [exchange EXCEPT !.time = exchange.time + 1,
                                       !.close = close]
    /\ result' = NoResult
    /\ UNCHANGED <<indicator, fed, ovars>>

InitIndicator(classes, quotes) ==
    /\ NoOrders
    /\ \E cls \in classes, window_size \in Windows :
          indicator = construct(cls, window_size)
    /\ \E q \in quotes, close \in 0..MaxSeriesTicks :
          /\ close \in Closes(q, 1)
          /\ exchange = [time |-> 1, close |-> close, quotes |-> q]
    /\ result = NoResult
    /\ fed = <<>>

(***************************************************************************)
(* SpecFeed: a primitive indicator read once per timestamp.                *)
(* SpecRepeat: a primitive indicator read up to MaxCalls times per         *)
(* timestamp.                                                              *)
(* SpecComposite: a composite indicator read up to MaxCalls times per      *)
(* timestamp, on a fixed series.                                           *)
(***************************************************************************)
InitFeed == InitIndicator(Primitives, {"any"})

NextFeed ==
    \/ Get(1)
    \/ Tick

SpecFeed == InitFeed /\ [][NextFeed]_vars

NextRepeat ==
    \/ Get(MaxCalls)
    \/ Tick

SpecRepeat == InitFeed /\ [][NextRepeat]_vars

InitComposite == InitIndicator(Composites, Series)

SpecComposite == InitComposite /\ [][NextRepeat]_vars

(***************************************************************************)
(* Claims about one Order, checked under Spec.                             *)
(***************************************************************************)
AllPositive(txs) == \A i \in 1..Len(txs) : txs[i].amount > 0

\* C1: 0 <= filled <= amount holds of every Order in every reachable state,
\* the state a failed execute_transaction leaves behind included.
C1_FilledWithinAmount ==
    \A r \in Refs : 0 <= heap[r].filled /\ heap[r].filled <= heap[r].amount

StatusEdges ==
    {<<"submitted", "open">>, <<"submitted", "filled">>,
     <<"submitted", "cancelled">>, <<"open", "filled">>,
     <<"open", "cancelled">>}

\* C2: the status of an Order changes only along Submitted->Open,
\* Submitted->Filled, Submitted->Cancelled, Open->Filled, Open->Cancelled;
\* no call changes a status that is Filled or Cancelled.
C2_StatusEdgesOnly ==
    [][\A r \in Refs :
          heap'[r].status # heap[r].status =>
              <<heap[r].status, heap'[r].status>> \in StatusEdges]_vars

\* C3: an execute_transaction(tx) that returns adds tx.amount to filled,
\* appends tx as the last transaction, returns True exactly when filled =
\* amount afterwards; the status is Filled when it returns True and is
\* unchanged when it returns False.
C3_ExecuteEffect ==
    [][\A r \in Refs :
          (last'.op = "execute_transaction" /\ last'.target = r
              /\ last'.exc = "") =>
          LET tx == generate_transaction(heap[r], last'.args[1],
                                         last'.args[2], last'.args[3])
          IN  /\ heap'[r].filled = heap[r].filled + tx.amount
              /\ heap'[r].transactions = Append(heap[r].transactions, tx)
              /\ last'.ret \in {"True", "False"}
              /\ (last'.ret = "True") <=> (heap'[r].filled = heap'[r].amount)
              /\ last'.ret = "True" => heap'[r].status = "filled"
              /\ last'.ret = "False" => heap'[r].status = heap[r].status]_vars

\* C3 witness: a partial fill returned False and the fill that completed the
\* order returned True.
C3_Witness ==
    \E r \in Refs :
        /\ last.op = "execute_transaction" /\ last.target = r
        /\ last.exc = "" /\ last.ret = "True"
        /\ Len(heap[r].transactions) = 2 /\ AllPositive(heap[r].transactions)
        /\ heap[r].status = "filled"

\* C4: with only positive transaction amounts, the execution that brings the
\* sum to the order's amount leaves filled = amount and status Filled, an
\* execution that leaves the sum below the amount does not make the order
\* Filled, and an execution on an order whose transactions already sum to
\* the amount (or more) ends in an AssertionError.
C4_FillThenFail ==
    [][\A r \in Refs :
          (last'.op = "execute_transaction" /\ last'.target = r
              /\ Len(heap'[r].transactions) = Len(heap[r].transactions) + 1
              /\ AllPositive(heap'[r].transactions)) =>
          LET before == SumAmounts(heap[r].transactions)
              after  == SumAmounts(heap'[r].transactions)
          IN  /\ after = heap[r].amount =>
                    /\ last'.exc = "" /\ last'.ret = "True"
                    /\ heap'[r].filled = heap[r].amount
                    /\ heap'[r].status = "filled"
              /\ after < heap[r].amount =>
                    /\ last'.exc = "" /\ last'.ret = "False"
                    /\ heap'[r].status # "filled"
              /\ before >= heap[r].amount =>
                    last'.exc = "AssertionError"]_vars

\* C4 witness: two positive transactions filled the order and a third one
\* failed.
C4_Witness ==
    \E r \in Refs :
        /\ last.op = "execute_transaction" /\ last.target = r
        /\ last.exc = "AssertionError"
        /\ Len(heap[r].transactions) = 3 /\ AllPositive(heap[r].transactions)
        /\ heap[r].transactions[1].amount + heap[r].transactions[2].amount
               = heap[r].amount
        /\ heap[r].status = "filled"

\* C5: open() makes a Submitted Limit order Open; on a Market order it ends
\* in an AssertionError and leaves the order as it was; no Market order is
\* ever Open.
C5_OpenLimitOnly ==
    /\ [][\A r \in Refs :
             (last'.op = "open" /\ last'.target = r) =>
                 IF heap[r].type = "market"
                 THEN last'.exc = "AssertionError" /\ heap'[r] = heap[r]
                 ELSE /\ last'.exc = ""
                      /\ heap[r].status = "submitted" =>
                             heap'[r].status = "open"]_vars
    /\ [](\A r \in Refs : heap[r].type = "market" => heap[r].status # "open")

\* C5 witness: open() has just failed on a Market order that was filled by
\* an execution.
C5_Witness ==
    \E r \in Refs :
        /\ last.op = "open" /\ last.target = r
        /\ last.exc = "AssertionError"
        /\ heap[r].type = "market" /\ heap[r].status = "filled"

\* C5 witness (limit side): open() has moved a Limit order to Open.
C5_WitnessLimit ==
    \E r \in Refs :
        /\ last.op = "open" /\ last.target = r /\ last.exc = ""
        /\ heap[r].type = "limit" /\ heap[r].status = "open"

\* C6: cancel() on a Submitted or Open order sets the status to Cancelled
\* and changes nothing else of the order (filled, transactions, fee, amount,
\* id, ...).
C6_CancelFrame ==
    [][\A r \in Refs :
          (last'.op = "cancel" /\ last'.target = r
              /\ heap[r].status \in {"submitted", "open"}) =>
          /\ last'.exc = ""
          /\ heap'[r] = [heap[r] EXCEPT !.status = "cancelled"]]_vars

\* C6 witness: a partly filled order that has paid a fee was cancelled.
C6_Witness ==
    \E r \in Refs :
        /\ last.op = "cancel" /\ last.target = r
        /\ heap[r].status = "cancelled"
        /\ 0 < heap[r].filled /\ heap[r].filled < heap[r].amount
        /\ heap[r].transactions # <<>>
        /\ DOMAIN heap[r].fee # {}

(***************************************************************************)
(* Claims about the OrderQueue, checked under SpecQueue (C7) and SpecBook. *)
(***************************************************************************)
\* C7: OrderQueue is first-in first-out: whatever insert_order,
\* remove_order and pop_order calls came before, a pop_order that returns
\* gives back the order whose insertion came earliest among the orders the
\* queue holds.
C7_PopReturnsEarliestInserted ==
    [][(last'.op = "pop_order" /\ last'.exc = "") =>
          last'.out = Head(arrival)]_vars

\* C8: remove_order and get_order on an id that is not in the book raise
\* OrderNotFound, pop_order on an empty queue raises; each of these failing
\* calls leaves the book (and the orders) as they were.
C8_AbsentFails ==
    [][/\ (last'.op = "remove_order"
              /\ ~dict_contains(books[last'.book], get_id(last'.target))) =>
              /\ last'.exc = "OrderNotFound"
              /\ books' = books /\ heap' = heap
       /\ (last'.op = "get_order"
              /\ ~dict_contains(books[last'.book], last'.args[1])) =>
              /\ last'.exc = "OrderNotFound"
              /\ books' = books /\ heap' = heap
       /\ (last'.op = "pop_order" /\ Len(books[last'.book]) = 0) =>
              /\ last'.exc # ""
              /\ books' = books /\ heap' = heap
       /\ (last'.op \in {"remove_order", "get_order", "pop_order"}
              /\ last'.exc # "") =>
              books' = books /\ heap' = heap]_vars

\* C8 witness: remove_order has just raised OrderNotFound for an order that
\* is not in a queue that holds other orders.
C8_Witness ==
    /\ last.op = "remove_order" /\ last.exc = "OrderNotFound"
    /\ last.target \notin dict_values(books.live)
    /\ Len(books.live) = 2

\* C8 witness (get_order): get_order has raised OrderNotFound.
C8_WitnessGet ==
    /\ last.op = "get_order" /\ last.exc = "OrderNotFound"
    /\ Len(books.live) = 2

\* C8 witness (pop_order): pop_order has raised on a queue that was emptied.
C8_WitnessPop ==
    /\ last.op = "pop_order" /\ last.exc = "KeyError"
    /\ Len(heap) > 0 /\ Len(books.live) = 0

C10_HistoryKeepsOrder ==
    [][/\ (last'.op \in {"remove_order", "pop_order"} /\ last'.book = "live") =>
              /\ books'.history = books.history
              /\ heap' = heap
       /\ \A r \in Refs :
              (last'.op \in {"cancel", "execute_transaction"}
                  /\ last'.target = r
                  /\ r \in dict_values(books.history)) =>
              LET got == get_order(books'.history, get_id(r))
              IN  /\ got.exc = "" /\ got.out = r
                  /\ last'.op = "cancel" =>
                        heap'[got.out].status = "cancelled"
                  /\ last'.op = "execute_transaction" =>
                        /\ heap'[got.out].filled =
                               heap[r].filled + last'.args[1]
                        /\ Len(heap'[got.out].transactions) =
                               Len(heap[r].transactions) + 1]_vars

\* C10 witness: the only order was taken out of the live queue, history
\* still holds it, and it has been executed and then cancelled.
C10_Witness ==
    \E r \in Refs :
        /\ Len(heap) = 1
        /\ is_empty(books.live)
        /\ get_order(books.history, get_id(r)).out = r
        /\ last.op = "cancel" /\ last.target = r
        /\ heap[r].status = "cancelled" /\ heap[r].filled = 1

\* C10 witness (read back): get_order on history has returned an order that
\* is no longer in the live queue and was cancelled.
C10_WitnessRead ==
    \E r \in Refs :
        /\ Len(heap) = 1
        /\ is_empty(books.live)
        /\ last.op = "get_order" /\ last.book = "history" /\ last.out = r
        /\ heap[r].status = "cancelled"

(***************************************************************************)
(* Claims about construction (SpecCreate) and fees (SpecFee).              *)
(***************************************************************************)
Rejected == last'.exc = "AssertionError" /\ heap' = heap /\ books' = books

\* C11 (as claimed): constructing an Order with a negative price, a negative
\* amount, a type that is no OrderType or a side that is no OrderSide fails,
\* for Limit and Market orders alike; add_new_order with such parameters
\* creates no order and leaves the book unchanged.
C11_MalformedRejected ==
    [][\A price \in Prices, amount \in CreateAmounts, order_type \in CreateTypes,
          side \in CreateSides, timestamp \in CreateTimestamps :
          ((\/ NewOrder("ETH", "BTC", price, amount, order_type, side, timestamp)
            \/ AddNewOrder("live", "ETH", "BTC", price, amount, order_type, side,
                           timestamp))
           /\ (\/ price < 0 \/ amount < 0
               \/ order_type \notin OrderType \/ side \notin OrderSide)) =>
          Rejected]_vars

\* C11 (amended): a negative amount, a type that is no OrderType or a side
\* that is no OrderSide fails the construction of any order, a negative
\* price that of a Limit order; a Market order with a negative price and
\* otherwise valid parameters is constructed with that price.  A failed
\* add_new_order creates no order and leaves the book unchanged.
C11_MalformedRejectedLimitPrice ==
    [][\A price \in Prices, amount \in CreateAmounts, order_type \in CreateTypes,
          side \in CreateSides, timestamp \in CreateTimestamps :
          (\/ NewOrder("ETH", "BTC", price, amount, order_type, side, timestamp)
           \/ AddNewOrder("live", "ETH", "BTC", price, amount, order_type, side,
                          timestamp)) =>
          /\ (\/ amount < 0
              \/ order_type \notin OrderType \/ side \notin OrderSide
              \/ (order_type = "limit" /\ price < 0)) => Rejected
          /\ (amount >= 0 /\ order_type = "market" /\ side \in OrderSide
                 /\ price < 0) =>
                 /\ last'.exc = ""
                 /\ Len(heap') = Len(heap) + 1
                 /\ heap'[Len(heap')].price = price
                 /\ heap'[Len(heap')].type = "market"
          /\ last'.exc # "" => heap' = heap /\ books' = books]_vars

\* C11 witness: add_new_order has just failed on a book that holds a Market
\* order of negative price.
C11_Witness ==
    \E r \in Refs :
        /\ heap[r].type = "market" /\ heap[r].price < 0
        /\ r \in dict_values(books.live)
        /\ Len(heap) = 1
        /\ last.op = "add_new_order" /\ last.exc = "AssertionError"

\* C12: pay_fee works in every status and only accumulates: the asset's fee
\* grows by the amount paid (from nothing when the asset was never paid),
\* no fee is recorded before the first payment, and the call leaves the
\* status, filled, the transactions and the fees of other assets unchanged.
C12_FeeAccumulates ==
    /\ [](last.op = "" => \A r \in Refs : DOMAIN heap[r].fee = {})
    /\ [][\A r \in Refs :
             (last'.op = "pay_fee" /\ last'.target = r) =>
             LET asset  == last'.args[1]
                 amount == last'.args[2]
                 old    == heap[r].fee
                 new    == heap'[r].fee
             IN  /\ last'.exc = ""
                 /\ DOMAIN new = DOMAIN old \cup {asset}
                 /\ new[asset] = (IF asset \in DOMAIN old THEN old[asset] ELSE 0)
                                     + amount
                 /\ \A a \in DOMAIN old \ {asset} : new[a] = old[a]
                 /\ heap'[r] = [heap[r] EXCEPT !.fee = new]]_vars

\* C12 witness: a filled order has paid twice in one asset and nothing in the
\* other.
C12_Witness ==
    \E r \in Refs :
        /\ last.op = "pay_fee" /\ last.target = r
        /\ heap[r].status = "filled"
        /\ DOMAIN heap[r].fee = {"BTC"}
        /\ heap[r].fee["BTC"] = 3

\* C12 witness (cancelled order, both assets).
C12_WitnessCancelled ==
    \E r \in Refs :
        /\ last.op = "pay_fee" /\ last.target = r
        /\ heap[r].status = "cancelled"
        /\ DOMAIN heap[r].fee = {"BTC", "ETH"}

(***************************************************************************)
(* Claims about the indicators (SpecFeed, SpecRepeat, SpecComposite).      *)
(***************************************************************************)
\* the last n elements of a sequence
LastN(seq, n) == SubSeq(seq, Len(seq) - n + 1, Len(seq))

RECURSIVE Total(_)
Total(seq) == IF seq = <<>> THEN 0 ELSE seq[1] + Total(Tail(seq))

Mean(seq) == Frac(Total(seq), Len(seq))

Nums(seq) == [i \in 1..Len(seq) |-> Num(seq[i])]

\* what get() returns at the timestamps i, i+1, ... of an exchange that
\* shows the closes, one per timestamp
RECURSIVE Replay(_, _, _)
Replay(self, closes, i) ==
    IF i > Len(closes) THEN <<>>
    ELSE LET r == get(self, [time |-> i, close |-> closes[i], quotes |-> "any"])
         IN  <<r.ret>> \o Replay(r.self, closes, i + 1)

\* get() is called again at a timestamp at which it was called before
RepeatGet == result.calls >= 1 /\ result'.calls = result.calls + 1

Unstamped(self) == [self EXCEPT !.last_timestamp = 0]

\* C13: a second get() of a primitive indicator (SMA, EMA, SMMA, Sigma, ATR)
\* at an unchanged timestamp returns what the first call returned and leaves
\* the buffers and the running aggregates unchanged, warm-up and first
\* timestamp included.
C13_PrimitiveRepeatIdle ==
    [][(RepeatGet /\ indicator.cls \in Primitives /\ result.exc = "") =>
          /\ Unstamped(indicator') = Unstamped(indicator)
          /\ result'.exc = ""
          /\ result'.ret = result.ret]_vars

\* C14: a second get() of a composite indicator (MACD, RSI, CCI,
\* BollingerBands, StochasticOscillator) at an unchanged timestamp leaves
\* the composite and the indicators it owns unchanged and, when the first
\* call returned, returns the same values.
C14_CompositeRepeatIdle ==
    [][(RepeatGet /\ indicator.cls \in Composites) =>
          /\ indicator' = indicator
          /\ result.exc = "" => result'.exc = "" /\ result'.ret = result.ret]_vars

\* C15: SMA(w) read once per timestamp returns None for the first w-1 feeds
\* and after every later feed the mean of the last w closes fed, its buffer
\* holding exactly those w closes; SMA(3) fed 1,2,3,4,5 returns None, None,
\* 2, 3, 4.
C15_SmaIsWindowMean ==
    /\ Replay(SMA_init(3), <<1, 2, 3, 4, 5>>, 1)
           = <<<<None>>, <<None>>, <<Num(2)>>, <<Num(3)>>, <<Num(4)>>>>
    /\ (indicator.cls = "SMA" /\ result.calls = 1) =>
          LET w == indicator.window_size
          IN  /\ result.exc = ""
              /\ Len(fed) < w => result.ret = <<None>>
              /\ Len(fed) >= w =>
                    /\ result.ret = <<Mean(LastN(fed, w))>>
                    /\ indicator.price_queue = Nums(LastN(fed, w))

\* C15 witness: SMA(3) after its fifth feed, the closes that left the
\* window differing from those that entered.
C15_Witness ==
    /\ indicator.cls = "SMA" /\ indicator.window_size = 3
    /\ result.calls = 1 /\ Len(fed) = 5
    /\ fed[1] # fed[4] /\ fed[2] # fed[5]
    /\ result.ret = <<Mean(LastN(fed, 3))>>

\* C16: SMA, EMA, SMMA and Sigma of window w >= 2, read once per timestamp
\* on non-negative closes, return None for each of the first w-1 feeds and
\* a value, without raising, for the w-th and every later feed; the first
\* feed of ATR returns None.
C16_WarmUp ==
    (result.calls = 1) =>
        /\ (indicator.cls \in {"SMA", "EMA", "SMMA", "Sigma"}
               /\ indicator.window_size >= 2) =>
              /\ result.exc = ""
              /\ Len(fed) < indicator.window_size => result.ret = <<None>>
              /\ Len(fed) >= indicator.window_size => result.ret[1].some
        /\ (indicator.cls = "ATR" /\ Len(fed) = 1) => result.ret = <<None>>

\* the EMA of window w after the first n of the closes, by its definition
RECURSIVE EmaOf(_, _, _)
EmaOf(closes, w, n) ==
    IF n < w THEN None
    ELSE IF n = w THEN Mean(SubSeq(closes, 1, w))
    ELSE RAdd(EmaOf(closes, w, n - 1),
              RMul(Num(closes[n] - closes[n - w]), Frac(2, w + 1)))

\* C17: EMA(w) read once per timestamp, with k = 2/(w+1), returns None
\* before the w-th feed, the plain average of the first w closes at the
\* w-th, and after each later feed the previous EMA plus (new close - close
\* leaving the window) * k; EMA(2) fed 1,2,3 returns None, 3/2, 17/6.
C17_EmaRecurrence ==
    /\ Replay(EMA_init(2), <<1, 2, 3>>, 1)
           = <<<<None>>, <<Frac(3, 2)>>, <<Frac(17, 6)>>>>
    /\ (indicator.cls = "EMA" /\ result.calls = 1) =>
          /\ result.exc = ""
          /\ indicator.multiplier = Frac(2, indicator.window_size + 1)
          /\ result.ret = <<EmaOf(fed, indicator.window_size, Len(fed))>>

\* C17 witness: EMA(2) after its fourth feed, the close leaving the window
\* differing from the one entering.
C17_Witness ==
    /\ indicator.cls = "EMA" /\ indicator.window_size = 2
    /\ result.calls = 1 /\ Len(fed) = 4
    /\ fed[2] # fed[4] /\ fed[1] # fed[3]
    /\ result.ret[1].some

\* C18: RSI(w) on strictly rising closes returns, from the (w+1)-th
\* timestamp on, values above 50 (towards 100), on strictly falling closes
\* values below 50 (towards 0), and never raises.
C18_RsiFollowsTrend ==
    (indicator.cls = "RSI" /\ result.calls >= 1
        /\ exchange.quotes \in {"up", "down"}) =>
        /\ result.exc = ""
        /\ Len(fed) >= indicator.window_size + 1 =>
              /\ result.ret[1].some
              /\ exchange.quotes = "up" => RLess(Num(50), result.ret[1])
              /\ exchange.quotes = "down" => RLess(result.ret[1], Num(50))

\* C19: the first get() of ATR(w) returns None, records the close as the
\* previous close and leaves the true-range buffer empty; every later
\* timestamp absorbs one true range; the result is None until w true ranges
\* are absorbed, their plain average at the w-th, and afterwards
\* (atr*(w-1) + tr)/w.
C19_AtrSmoothing ==
    [][(indicator.cls = "ATR" /\ result'.calls = 1) =>
          LET w   == indicator.window_size
              tr  == true_range(fetch_ticker(exchange), indicator.previous_close)
              absorbed == Len(fed') - 1
          IN  /\ result'.exc = ""
              /\ Len(fed') = 1 =>
                    /\ result'.ret = <<None>>
                    /\ indicator' = [indicator EXCEPT
                                       !.previous_close = Num(exchange.close)]
                    /\ indicator'.tr_queue = <<>>
              /\ Len(fed') > 1 =>
                    /\ indicator'.previous_close = indicator.previous_close
                    /\ indicator'.tr_queue
                           = deque_append(indicator.tr_queue, w + 1, tr)
                    /\ Len(indicator'.tr_queue)
                           = IF absorbed <= w THEN absorbed ELSE w + 1
                    /\ absorbed < w => result'.ret = <<None>>
                    /\ absorbed = w =>
                          result'.ret = <<RDiv(sum(indicator'.tr_queue), Num(w))>>
                    /\ absorbed > w =>
                          result'.ret = <<RDiv(RAdd(RMul(indicator.atr,
                                                         Num(w - 1)), tr),
                                               Num(w))>>
                    /\ indicator'.atr = result'.ret[1]]_vars

\* C19 witness: ATR(2) has absorbed its third true range, which differs
\* from the one absorbed before.
C19_Witness ==
    /\ indicator.cls = "ATR" /\ indicator.window_size = 2
    /\ result.calls = 1 /\ Len(fed) = 4
    /\ indicator.tr_queue[3] # indicator.tr_queue[2]
    /\ result.ret[1].some

\* C19 witness (first get).
C19_WitnessFirst ==
    /\ indicator.cls = "ATR" /\ result.calls = 1 /\ Len(fed) = 1
    /\ indicator.previous_close = Num(2)
    /\ indicator.tr_queue = <<>>

\* C20: once 14 closes fill the window of the StochasticOscillator, every
\* get() at a new timestamp returns %K = (close - low14)/(high14 - low14)
\* * 100 over the 14-close window, and once three %K exist %D, the mean of
\* the last three %K.
C20_StochasticDefined ==
    (indicator.cls = "StochasticOscillator" /\ result.calls = 1
        /\ result.exc = "" /\ Len(fed) > 14) =>
        LET window == Nums(LastN(fed, 14))
            low14  == min(window)
            high14 == max(window)
        IN  /\ result.ret[1].some
            /\ RSub(high14, low14).n # 0 =>
                  result.ret[1] = RMul(RDiv(RSub(Num(exchange.close), low14),
                                            RSub(high14, low14)), Num(100))
            /\ Len(fed) >= 14 + 3 => result.ret[2].some

\* C21: no get() of a composite indicator ends in a division by zero: when
\* the divisor degenerates (CCI with sigma = 0, StochasticOscillator with
\* high14 = low14, RSI with smma_down = 0) the call returns None values.
C21_NoDivisionByZero ==
    (indicator.cls \in Composites /\ result.calls >= 1
        /\ (indicator.cls \in {"CCI", "BollingerBands", "RSI"}
               => indicator.window_size >= 2)) =>
        /\ result.exc # "ZeroDivisionError"
        /\ (indicator.cls = "StochasticOscillator" /\ Len(fed) > 14
               /\ min(Nums(SubSeq(fed, Len(fed) - 14, Len(fed) - 1)))
                      = max(Nums(SubSeq(fed, Len(fed) - 14, Len(fed) - 1)))) =>
              result.exc = "" /\ result.ret[1] = None

\* C22: BollingerBands(w), w >= 2, returns (middle, upper, lower), all None
\* until w closes are fed and all defined afterwards; then middle is the
\* mean of the last w closes, upper - middle = middle - lower >= 0.
C22_BandsAroundMean ==
    (indicator.cls = "BollingerBands" /\ indicator.window_size >= 2
        /\ result.calls = 1) =>
        /\ result.exc = ""
        /\ Len(fed) < indicator.window_size => result.ret = <<None, None, None>>
        /\ Len(fed) >= indicator.window_size =>
              /\ \A i \in 1..3 : result.ret[i].some
              /\ result.ret[1] = Mean(LastN(fed, indicator.window_size))
              /\ RSub(result.ret[2], result.ret[1])
                     = RSub(result.ret[1], result.ret[3])
              /\ ~RLess(result.ret[1], result.ret[3])
              /\ ~RLess(result.ret[2], result.ret[1])

\* what EMA(w) returns at the k-th of the closes
EmaOut(w, closes, k) == Replay(EMA_init(w), SubSeq(closes, 1, k), 1)[k]

\* C23: past the seed the value EMA returns is determined by the previous
\* EMA value and the new close alone: any other feed sequence that gave the
\* same previous value and ends with the same close gives the same value,
\* whatever close leaves the window.
C23_EmaBufferFree ==
    (indicator.cls = "EMA" /\ result.calls = 1
        /\ Len(fed) > indicator.window_size) =>
        LET w == indicator.window_size
            n == Len(fed)
        IN  \A other \in [1..n -> 0..MaxPrice] :
                (/\ other[n] = fed[n]
                 /\ EmaOut(w, other, n - 1) = EmaOut(w, fed, n - 1)) =>
                EmaOut(w, other, n) = result.ret

\* C24: the true range ATR absorbs at every timestamp after the first is
\* measured against the close of the timestamp before, the stored previous
\* close being advanced at every timestamp.
C24_AtrPreviousCloseAdvances ==
    [][(indicator.cls = "ATR" /\ result'.calls = 1 /\ Len(fed) >= 1) =>
          /\ indicator'.tr_queue[Len(indicator'.tr_queue)]
                 = true_range(fetch_ticker(exchange), Num(fed[Len(fed)]))
          /\ indicator'.previous_close = Num(exchange.close)]_vars

Squares(seq) == [i \in 1..Len(seq) |-> seq[i] * seq[i]]

\* C25: after every feed of Sigma(w), w >= 2, both buffers have the same
\* length, at most w+1; from the w-th feed on the running sums are the sum
\* and the sum of squares of the last w closes, and the value returned is
\* the square root of (sum_sq - sum^2)/(w-1).
C25_SigmaSums ==
    (indicator.cls = "Sigma" /\ indicator.window_size >= 2
        /\ result.calls = 1) =>
        LET w == indicator.window_size
        IN  /\ Len(indicator.price_queue) = Len(indicator.price_queue_sq)
            /\ Len(indicator.price_queue) <= w + 1
            /\ Len(fed) >= w =>
                  /\ indicator.price_sum = Num(Total(LastN(fed, w)))
                  /\ indicator.price_sum_sq = Num(Total(Squares(LastN(fed, w))))
                  /\ result.exc = ""
                  /\ result.ret[1].some
                  /\ RMul(RMul(result.ret[1], result.ret[1]), Num(w - 1))
                         = RSub(indicator.price_sum_sq,
                                RMul(indicator.price_sum, indicator.price_sum))

\* C26: filled is the sum of the amounts of the recorded transactions in
\* every state of an Order, and every operation keeps the transactions
\* recorded before it, in their order, at the front of the sequence.
C26_FilledIsSumOfTransactions ==
    /\ [](\A r \in Refs : heap[r].filled = SumAmounts(heap[r].transactions))
    /\ [][\A r \in Refs :
             /\ Len(heap'[r].transactions) >= Len(heap[r].transactions)
             /\ SubSeq(heap'[r].transactions, 1, Len(heap[r].transactions))
                    = heap[r].transactions]_vars

\* C26 witness: an execute_transaction has failed its assertion on an order
\* that had a transaction recorded before; both are recorded.
C26_Witness ==
    \E r \in Refs :
        /\ last.op = "execute_transaction" /\ last.exc = "AssertionError"
        /\ Len(heap[r].transactions) = 2
        /\ heap[r].filled = heap[r].transactions[1].amount
                                + heap[r].transactions[2].amount
        /\ heap[r].filled > heap[r].amount

\* C26 witness (cancel and pay_fee on an order with transactions).
C26_WitnessCancelled ==
    \E r \in Refs :
        /\ last.op = "pay_fee"
        /\ heap[r].status = "cancelled"
        /\ Len(heap[r].transactions) = 2

====
